---- MODULE Spec2Model ----
(***************************************************************************)
(* Hot-reload subsystem of the Vulkan template: FileWatcher (polling       *)
(* thread and path registry), Pipeline::reload / createPipelineObject and  *)
(* the per-frame reload pass of Application::render.                       *)
(*                                                                         *)
(* Two specifications share the watcher actions:                           *)
(*   SpecFW - the FileWatcher class driven through its public interface    *)
(*            (addFile, start, stop) with an arbitrary registration order; *)
(*   Spec   - the application: prepare() registers the pipelines and       *)
(*            models, starts the watcher, and render() runs frame by frame.*)
(***************************************************************************)
EXTENDS Integers, Sequences, FiniteSets, TLC

(* ---------------------------------------------------------------------- *)
(* Bounds                                                                  *)
(* ---------------------------------------------------------------------- *)
\* writes to watched files performed by the environment
MaxTouches == 1
\* addFile calls issued by the FileWatcher client in SpecFW
MaxAdds == 3
\* frames rendered by the application in Spec
MaxFrames == 2
\* writes and deletions of watched files in SpecFW
MaxWrites == 2
\* saves of edited files in SpecEdits
MaxEdits == 2
\* frames rendered by the application in SpecFrames
MaxPaced == 3

(* ---------------------------------------------------------------------- *)
(* Program constants                                                       *)
(* ---------------------------------------------------------------------- *)
renderAhead == 2
VK_NULL_HANDLE == 0

\* Pipeline objects (Pipeline*), in the order of pipelineList
PSkybox == 1
PPlayership == 2
PGltf == 3
pipelineList == <<PSkybox, PPlayership, PGltf>>
Pipelines == {PSkybox, PPlayership, PGltf}

\* shader source files of each pipeline (PipelineCreateInfo::shaders)
Shaders(p) ==
    IF p = PGltf THEN <<"gltf.vert", "gltf.frag">>
    ELSE IF p = PPlayership THEN <<"playership.vert", "gltf.frag">>
    ELSE <<"skybox.vert", "skybox.frag">>

\* the pipeline of the UI overlay: built by UIOverlay::preparePipeline and
\* kept out of pipelineList
POverlay == 9
AllPipelines == Pipelines \cup {POverlay}

\* the gltf pipeline built without .enableHotReload = true
enableHotReload_gltfDefault(p) == p \in {PSkybox, PPlayership}

\* PipelineCreateInfo::enableHotReload as passed to the constructor (the
\* member defaults to false)
enableHotReload(p) == p \in {PSkybox, PPlayership, PGltf}

\* Pipeline::initialCreateInfo after the constructor: the copy of the
\* create info, kept only for a pipeline built with hot reload enabled
nullptr == [isNull |-> TRUE]
initialCreateInfo(p) ==
    IF enableHotReload(p) THEN [isNull |-> FALSE, shaders |-> Shaders(p)] ELSE nullptr

\* pipelines bound by recordCommandBuffer
BoundPipelines == {PSkybox, PGltf}

\* model assets loaded by loadAssets (name -> file); addresses of the
\* initially loaded Model objects
ModelNames == {"crate", "moon"}
ModelFile(n) == IF n = "moon" THEN "moon.gltf" ELSE "crate.glb"
FirstModelPtr == 10

\* actors created by prepare() and the asset each takes its model from
ActorNames == {"moon"}
ActorModel(a) == "moon"

ShaderPaths == {"gltf.vert", "gltf.frag", "playership.vert", "skybox.vert", "skybox.frag"}
ModelPaths == {ModelFile(n) : n \in ModelNames}
Paths == ShaderPaths \cup ModelPaths

\* the files the user edits while the application runs: the shader shared
\* by the gltf and playership pipelines, and the model of the moon actor
EditedPaths == {"gltf.frag", "moon.gltf"}

\* the client of SpecFW: opaque owner handles X, Y, Z and the paths it uses
HarnessOwners == {101, 102, 103}
HarnessPaths == {"gltf.frag", "skybox.frag"}

VARIABLES
    \* --- filesystem ---
    mtime,          \* path -> last write time
    touches,        \* number of writes so far
    missing,        \* paths that have been deleted
    \* --- FileWatcher ---
    files,          \* FileWatcher::files : path -> FileWatchInfo
    active,         \* FileWatcher::active
    wpc,            \* position of the watcher thread in watch()
    toVisit,        \* paths the for loop of the current tick has not reached
    tickCalls,      \* onFileChanged invocations of the current poll tick
    changedAtStart, \* paths whose time differed from the stored one when the tick began
    tickOld,        \* per invocation of the tick: the stored time it replaced
    \* --- client thread of SpecFW ---
    cpc,            \* "setup" | "running" | "joining" | "stopped"
    adds,           \* addFile calls so far
    \* --- application ---
    content,        \* what each watched file currently holds
    mpc,            \* position of the main/render thread
    frames,         \* frames rendered so far
    frameIndex,     \* VulkanApplication::frameIndex
    inflight,       \* frame slots submitted to the GPU and not yet finished
    cmdRefs,        \* slot -> objects referenced by the slot's recorded command buffer
    cmdModels,      \* slot -> Model objects whose buffers the slot's unfinished command buffer draws from
    handle,         \* Pipeline::handle per pipeline
    nextHandle,     \* next VkPipeline value the driver hands out
    destroyed,      \* VkPipeline values passed to vkDestroyPipeline
    wantsReload,    \* Pipeline::wantsReload per pipeline
    pi,             \* index into pipelineList of the reload pass
    shaderModules,  \* createPipelineObject: local vector of shader modules
    liveModules,    \* shader modules created and not destroyed
    models,         \* AssetManager::models : name -> Model*
    modelWantsReload, \* Model::wantsReload per Model object
    deletedModels,  \* Model objects that have been deleted
    nextModelPtr,   \* next address operator new returns for a Model
    actors,         \* ActorManager::actors : name -> Actor::model
    mToVisit,       \* names the model loop of render() has not reached
    it,             \* render(): the entry of models the loop is at
    newModel,       \* render(): local newModel
    \* --- history of the current reload() call ---
    handleBefore,   \* the handle the pipeline had when reload() was entered
    rebuildFailed,  \* a shader module or the pipeline object could not be created
    rearmed,        \* pipelines whose flag the callback wrote since their reload() began
    ctorFailed,     \* model replacements whose construction failed: name and old Model
    \* --- history of the current reload pass ---
    passFlagged,    \* pipelines and table models whose flag was set when the pass began
    passInvoked     \* pipelines and models whose reload operation the pass has invoked

fwVars == <<files, active, wpc, toVisit, tickCalls, changedAtStart, tickOld>>
fsVars == <<mtime, touches, missing>>
clientVars == <<cpc, adds>>
gpuVars == <<inflight, cmdRefs, cmdModels>>
pipeVars == <<handle, nextHandle, destroyed, pi, shaderModules, liveModules>>
modelVars == <<models, deletedModels, nextModelPtr, mToVisit, it, newModel, actors>>
flagVars == <<wantsReload, modelWantsReload>>
mainVars == <<mpc, frames, frameIndex>>
passVars == <<passFlagged, passInvoked>>
histVars == <<handleBefore, rebuildFailed, rearmed, ctorFailed, passVars>>
appVars == <<content, mainVars, gpuVars, pipeVars, modelVars, flagVars, histVars>>
vars == <<fsVars, fwVars, clientVars, appVars>>

(* ---------------------------------------------------------------------- *)
(* Filesystem                                                              *)
(* ---------------------------------------------------------------------- *)
\* std::filesystem::last_write_time(path)
last_write_time(f) == mtime[f]

\* the process has not been ended by abort() in the render thread, by a
\* failed assert, by a read through a null pointer or by std::terminate
\* for an exception that left the watcher thread, and has not returned
\* from its entry point
ProcessAlive == mpc \notin {"aborted", "assert_failed", "null_deref", "done"} /\ wpc # "terminated"

\* what a saved file can hold: "valid" builds; "invalid" yields no shader
\* module or model (it cannot be opened, is empty, or is rejected)
Contents == {"valid", "invalid"}

\* the user saves a watched file: it gets a newer modification time
Touch(f, c) ==
    /\ ProcessAlive
    /\ touches < MaxTouches
    /\ mtime' = [mtime EXCEPT ![f] = @ + 1]
    /\ content' = [content EXCEPT ![f] = c]
    /\ touches' = touches + 1
    /\ UNCHANGED <<missing, fwVars, clientVars>>
    /\ UNCHANGED <<mainVars, gpuVars, pipeVars, modelVars, flagVars, histVars>>

\* the user saves a watched file once more, with content that builds
Edit(f) ==
    /\ ProcessAlive
    /\ touches < MaxEdits
    /\ mtime' = [mtime EXCEPT ![f] = @ + 1]
    /\ content' = [content EXCEPT ![f] = "valid"]
    /\ touches' = touches + 1
    /\ UNCHANGED <<missing, fwVars, clientVars>>
    /\ UNCHANGED <<mainVars, gpuVars, pipeVars, modelVars, flagVars, histVars>>

\* a watched file is written while a FileWatcher client runs
Write(f) ==
    /\ ProcessAlive
    /\ touches < MaxWrites
    /\ f \notin missing
    /\ mtime' = [mtime EXCEPT ![f] = @ + 1]
    /\ touches' = touches + 1
    /\ UNCHANGED <<missing, fwVars, clientVars, appVars>>

\* a watched file is deleted: last_write_time(f) throws from then on
Delete(f) ==
    /\ ProcessAlive
    /\ touches < MaxWrites
    /\ f \notin missing
    /\ missing' = missing \cup {f}
    /\ touches' = touches + 1
    /\ UNCHANGED <<mtime, fwVars, clientVars, appVars>>

(* ---------------------------------------------------------------------- *)
(* FileWatcher                                                             *)
(* ---------------------------------------------------------------------- *)
FileWatchInfo(t, os) == [filetime |-> t, owners |-> os]

\* FileWatcher::addFile, as a function of the registry
addFile_restat(fs, filename, owner) ==
    IF filename \notin DOMAIN fs
    THEN [f \in DOMAIN fs \cup {filename} |->
            IF f = filename
            THEN FileWatchInfo(last_write_time(filename), <<owner>>)
            ELSE fs[f]]
    ELSE [fs EXCEPT ![filename] =
            FileWatchInfo(last_write_time(filename), Append(@.owners, owner))]

addFile(fs, filename, owner) ==
    IF filename \notin DOMAIN fs
    THEN [f \in DOMAIN fs \cup {filename} |->
            IF f = filename
            THEN FileWatchInfo(last_write_time(filename), <<owner>>)
            ELSE fs[f]]
    ELSE [fs EXCEPT ![filename].owners = Append(@, owner)]

\* the invocations of onFileChanged made for one changed entry
Notify_perOwner(calls, filename, owners) ==
    calls \o [i \in 1..Len(owners) |-> [path |-> filename, owners |-> <<owners[i]>>]]

Notify(calls, filename, owners) ==
    Append(calls, [path |-> filename, owners |-> owners])

\* a callback that marks the first owner of the list and returns
onFileChanged_firstOwner(flags, table, owners) ==
    IF owners = <<>> THEN flags
    ELSE LET owner == Head(owners)
         IN [p |-> IF \E i \in 1..Len(pipelineList) : pipelineList[i] = owner
                   THEN [flags.p EXCEPT ![owner] = TRUE]
                   ELSE flags.p,
             m |-> IF \E n \in DOMAIN table : table[n] = owner
                   THEN [flags.m EXCEPT ![owner] = TRUE]
                   ELSE flags.m]

\* Application::onFileChanged: the wantsReload flags of the pipelines (p)
\* and of the Model objects (m) after the callback has run over owners
RECURSIVE onFileChanged(_, _, _)
onFileChanged(flags, table, owners) ==
    IF owners = <<>> THEN flags
    ELSE LET owner == Head(owners)
             p1 == IF \E i \in 1..Len(pipelineList) : pipelineList[i] = owner
                   THEN [flags.p EXCEPT ![owner] = TRUE]
                   ELSE flags.p
             m1 == IF \E n \in DOMAIN table : table[n] = owner
                   THEN [flags.m EXCEPT ![owner] = TRUE]
                   ELSE flags.m
         IN onFileChanged([p |-> p1, m |-> m1], table, Tail(owners))

\* watch(): while (active)
WWhile ==
    /\ ProcessAlive
    /\ wpc = "while"
    /\ wpc' = IF active THEN "sleep" ELSE "exited"
    /\ UNCHANGED <<files, active, toVisit, tickCalls, changedAtStart, tickOld>>
    /\ UNCHANGED <<fsVars, clientVars, appVars>>

\* watch(): sleep_for(interval) returns and the for loop over files begins
WWake ==
    /\ ProcessAlive
    /\ wpc = "sleep"
    /\ wpc' = "for"
    /\ toVisit' = DOMAIN files
    /\ tickCalls' = <<>>
    /\ tickOld' = <<>>
    /\ changedAtStart' = {f \in DOMAIN files : files[f].filetime # last_write_time(f)}
    /\ UNCHANGED <<files, active>>
    /\ UNCHANGED <<fsVars, clientVars, appVars>>

\* watch(): an iteration that reports a change and keeps the stored time
WCheck_noStore(f) ==
    /\ ProcessAlive
    /\ wpc = "for"
    /\ f \in toVisit
    /\ f \notin missing
    /\ toVisit' = toVisit \ {f}
    /\ IF files[f].filetime # last_write_time(f)
       THEN /\ tickCalls' = Notify(tickCalls, f, files[f].owners)
            /\ tickOld' = Append(tickOld, files[f].filetime)
       ELSE UNCHANGED <<tickCalls, tickOld>>
    /\ UNCHANGED <<files, active, wpc, changedAtStart, flagVars, rearmed>>
    /\ UNCHANGED <<fsVars, clientVars>>
    /\ UNCHANGED <<content, mainVars, gpuVars, pipeVars, modelVars, handleBefore, rebuildFailed, ctorFailed, passVars>>

\* watch(): an iteration whose callback destroys the pipeline objects of
\* the changed file itself instead of leaving that to the render thread
WCheck_reloadInCallback(f) ==
    /\ ProcessAlive
    /\ wpc = "for"
    /\ f \in toVisit
    /\ f \notin missing
    /\ toVisit' = toVisit \ {f}
    /\ IF files[f].filetime # last_write_time(f)
       THEN /\ files' = [files EXCEPT ![f].filetime = last_write_time(f)]
            /\ tickCalls' = Notify(tickCalls, f, files[f].owners)
            /\ tickOld' = Append(tickOld, files[f].filetime)
            /\ destroyed' = destroyed \cup
                   {handle[p] : p \in {q \in Pipelines :
                       \E i \in 1..Len(files[f].owners) : files[f].owners[i] = q}}
       ELSE UNCHANGED <<files, tickCalls, tickOld, destroyed>>
    /\ UNCHANGED <<active, wpc, changedAtStart, flagVars, rearmed>>
    /\ UNCHANGED <<handle, nextHandle, pi, shaderModules, liveModules>>
    /\ UNCHANGED <<fsVars, clientVars>>
    /\ UNCHANGED <<content, mainVars, gpuVars, modelVars, handleBefore, rebuildFailed, ctorFailed, passVars>>

\* watch(): an iteration that invokes the callback without comparing the
\* stored time with the current one
WCheck_always(f) ==
    /\ ProcessAlive
    /\ wpc = "for"
    /\ f \in toVisit
    /\ f \notin missing
    /\ toVisit' = toVisit \ {f}
    /\ files' = [files EXCEPT ![f].filetime = last_write_time(f)]
    /\ tickCalls' = Notify(tickCalls, f, files[f].owners)
    /\ tickOld' = Append(tickOld, files[f].filetime)
    /\ UNCHANGED <<active, wpc, changedAtStart, flagVars, rearmed>>
    /\ UNCHANGED <<fsVars, clientVars>>
    /\ UNCHANGED <<content, mainVars, gpuVars, pipeVars, modelVars, handleBefore, rebuildFailed, ctorFailed, passVars>>

\* watch(): one iteration of the for loop (iteration order of the
\* unordered_map is unspecified). last_write_time throws filesystem_error
\* for a path that no longer exists; nothing in watch() catches it, so the
\* exception leaves the thread function and std::terminate ends the process.
WCheck(f) ==
    /\ ProcessAlive
    /\ wpc = "for"
    /\ f \in toVisit
    /\ IF f \in missing
       THEN /\ wpc' = "terminated"
            /\ UNCHANGED <<files, toVisit, tickCalls, tickOld, flagVars, rearmed>>
       ELSE /\ toVisit' = toVisit \ {f}
            /\ UNCHANGED wpc
            /\ LET current_file_last_write_time == last_write_time(f)
               IN IF files[f].filetime # current_file_last_write_time
                  THEN /\ files' = [files EXCEPT ![f].filetime = current_file_last_write_time]
                       /\ tickCalls' = Notify(tickCalls, f, files[f].owners)
                       /\ tickOld' = Append(tickOld, files[f].filetime)
                       /\ LET flags == onFileChanged([p |-> wantsReload, m |-> modelWantsReload],
                                                      models, files[f].owners)
                          IN /\ wantsReload' = flags.p
                             /\ modelWantsReload' = flags.m
                             /\ rearmed' = rearmed \cup
                                    {p \in Pipelines : \E i \in 1..Len(files[f].owners) : files[f].owners[i] = p}
                  ELSE UNCHANGED <<files, tickCalls, tickOld, flagVars, rearmed>>
    /\ UNCHANGED <<active, changedAtStart>>
    /\ UNCHANGED <<fsVars, clientVars>>
    /\ UNCHANGED <<content, mainVars, gpuVars, pipeVars, modelVars, handleBefore, rebuildFailed, ctorFailed, passVars>>

\* watch(): the for loop is finished
WEndFor ==
    /\ ProcessAlive
    /\ wpc = "for"
    /\ toVisit = {}
    /\ wpc' = "while"
    /\ UNCHANGED <<files, active, toVisit, tickCalls, changedAtStart, tickOld>>
    /\ UNCHANGED <<fsVars, clientVars, appVars>>

Watcher == WWhile \/ WWake \/ (\E f \in Paths : WCheck(f)) \/ WEndFor

\* the element a for loop over an unordered container reaches first: one
\* fixed order per content
IterFirst(S) == IF S = {} THEN "" ELSE CHOOSE f \in S : TRUE

(* ---------------------------------------------------------------------- *)
(* SpecFW: a client of the FileWatcher class                               *)
(* ---------------------------------------------------------------------- *)
\* the client registers files that exist (addFile reads their time)
CAddFile(f, o) ==
    /\ ProcessAlive
    /\ cpc = "setup"
    /\ adds < MaxAdds
    /\ f \notin missing
    /\ files' = addFile(files, f, o)
    /\ adds' = adds + 1
    /\ UNCHANGED <<active, wpc, toVisit, tickCalls, changedAtStart, tickOld, cpc>>
    /\ UNCHANGED <<fsVars, appVars>>

\* FileWatcher::start
CStart ==
    /\ ProcessAlive
    /\ cpc = "setup"
    /\ active' = TRUE
    /\ wpc' = "while"
    /\ cpc' = "running"
    /\ UNCHANGED <<files, toVisit, tickCalls, changedAtStart, tickOld, adds>>
    /\ UNCHANGED <<fsVars, appVars>>

\* FileWatcher::stop: active = false
CStop ==
    /\ ProcessAlive
    /\ cpc = "running"
    /\ active' = FALSE
    /\ cpc' = "joining"
    /\ UNCHANGED <<files, wpc, toVisit, tickCalls, changedAtStart, tickOld, adds>>
    /\ UNCHANGED <<fsVars, appVars>>

\* FileWatcher::stop returning without waiting for the thread
CJoin_noWait ==
    /\ ProcessAlive
    /\ cpc = "joining"
    /\ cpc' = "stopped"
    /\ UNCHANGED <<fwVars, adds>>
    /\ UNCHANGED <<fsVars, appVars>>

\* FileWatcher::stop: thread.join() returns
CJoin ==
    /\ ProcessAlive
    /\ cpc = "joining"
    /\ wpc = "exited"
    /\ cpc' = "stopped"
    /\ UNCHANGED <<fwVars, adds>>
    /\ UNCHANGED <<fsVars, appVars>>

(* ---------------------------------------------------------------------- *)
(* Application: prepare()                                                  *)
(* ---------------------------------------------------------------------- *)
\* FileWatcher::addPipeline
RECURSIVE addFiles(_, _, _)
addFiles(fs, filenames, owner) ==
    IF filenames = <<>> THEN fs
    ELSE addFiles(addFile(fs, Head(filenames), owner), Tail(filenames), owner)

addPipeline(fs, pipeline) == addFiles(fs, initialCreateInfo(pipeline).shaders, pipeline)

\* prepare(): for (auto& pipeline : pipelineList) fileWatcher->addPipeline(pipeline)
RECURSIVE addPipelines(_, _)
addPipelines(fs, list) ==
    IF list = <<>> THEN fs
    ELSE addPipelines(addPipeline(fs, Head(list)), Tail(list))

\* loadAssets(): every model is constructed, stored in the asset table and
\* registered with the watcher under its file
RECURSIVE loadAssets(_, _, _)
loadAssets(fs, names, ptr) ==
    IF names = {} THEN fs
    ELSE LET n == CHOOSE x \in names : TRUE
         IN loadAssets(addFile(fs, ModelFile(n), ptr), names \ {n}, ptr + 1)

RECURSIVE loadedModels(_, _)
loadedModels(names, ptr) ==
    IF names = {} THEN <<>>
    ELSE LET n == CHOOSE x \in names : TRUE
             rest == loadedModels(names \ {n}, ptr + 1)
         IN [m \in DOMAIN rest \cup {n} |-> IF m = n THEN ptr ELSE rest[m]]

\* prepare() starting the watcher right after loadAssets() and registering
\* the pipelines while the watcher thread already polls
Prepare_startBeforeRegister ==
    \/ /\ mpc = "start"
       /\ \A f \in Paths : content[f] = "valid"
       /\ models' = loadedModels(ModelNames, FirstModelPtr)
       /\ nextModelPtr' = FirstModelPtr + Cardinality(ModelNames)
       /\ actors' = [a \in ActorNames |-> loadedModels(ModelNames, FirstModelPtr)[ActorModel(a)]]
       /\ modelWantsReload' = [m \in FirstModelPtr..(FirstModelPtr + Cardinality(ModelNames) - 1) |-> FALSE]
       /\ handle' = [p \in Pipelines |-> p]
       /\ nextHandle' = Len(pipelineList) + 1
       /\ files' = loadAssets(files, ModelNames, FirstModelPtr)
       /\ active' = TRUE
       /\ wpc' = "while"
       /\ mpc' = "registering"
       /\ UNCHANGED <<toVisit, tickCalls, changedAtStart, tickOld>>
       /\ UNCHANGED <<fsVars, clientVars, content, frames, frameIndex, gpuVars>>
       /\ UNCHANGED <<destroyed, pi, shaderModules, liveModules, wantsReload>>
       /\ UNCHANGED <<deletedModels, mToVisit, it, newModel, histVars>>
    \/ /\ mpc = "registering"
       /\ files' = addPipelines(files, pipelineList)
       /\ mpc' = "prepareFrame"
       /\ UNCHANGED <<active, wpc, toVisit, tickCalls, changedAtStart, tickOld>>
       /\ UNCHANGED <<frames, frameIndex>>
       /\ UNCHANGED <<fsVars, clientVars, content, gpuVars, pipeVars, modelVars, flagVars, histVars>>

\* Application::prepare: assets and pipelines are created, registered with
\* the watcher, and the watcher thread is started
Prepare ==
    /\ mpc = "start"
    /\ \A f \in Paths : content[f] = "valid"
    /\ models' = loadedModels(ModelNames, FirstModelPtr)
    /\ nextModelPtr' = FirstModelPtr + Cardinality(ModelNames)
    /\ actors' = [a \in ActorNames |-> loadedModels(ModelNames, FirstModelPtr)[ActorModel(a)]]
    /\ modelWantsReload' = [m \in FirstModelPtr..(FirstModelPtr + Cardinality(ModelNames) - 1) |-> FALSE]
    /\ handle' = [p \in Pipelines |-> p]
    /\ nextHandle' = Len(pipelineList) + 1
    /\ IF \E i \in 1..Len(pipelineList) : initialCreateInfo(pipelineList[i]) = nullptr
       THEN \* addPipeline reads the shader list through a null initialCreateInfo
            /\ files' = loadAssets(files, ModelNames, FirstModelPtr)
            /\ mpc' = "null_deref"
            /\ UNCHANGED <<active, wpc>>
       ELSE /\ files' = addPipelines(loadAssets(files, ModelNames, FirstModelPtr), pipelineList)
            /\ active' = TRUE
            /\ wpc' = "while"
            /\ mpc' = "prepareFrame"
    /\ UNCHANGED <<toVisit, tickCalls, changedAtStart, tickOld>>
    /\ UNCHANGED <<fsVars, clientVars, content, frames, frameIndex, gpuVars>>
    /\ UNCHANGED <<destroyed, pi, shaderModules, liveModules, wantsReload>>
    /\ UNCHANGED <<deletedModels, mToVisit, it, newModel, histVars>>

(* ---------------------------------------------------------------------- *)
(* GPU                                                                     *)
(* ---------------------------------------------------------------------- *)
\* the GPU finishes the command buffer of a slot and signals its fence
GpuFinish(slot) ==
    /\ ProcessAlive
    /\ slot \in inflight
    /\ inflight' = inflight \ {slot}
    /\ cmdModels' = [cmdModels EXCEPT ![slot] = {}]
    /\ UNCHANGED <<cmdRefs, fsVars, fwVars, clientVars>>
    /\ UNCHANGED <<content, mainVars, pipeVars, modelVars, flagVars, histVars>>

\* Device::waitIdle: returns when nothing submitted is still executing
waitIdle_none(executing) == executing

waitIdle(executing) == {}

\* the draws that are still pending once only the slots of executing are
\* unfinished
PendingDraws(draws, executing) ==
    [slot \in DOMAIN draws |-> IF slot \in executing THEN draws[slot] ELSE {}]

(* ---------------------------------------------------------------------- *)
(* Application::render                                                     *)
(* ---------------------------------------------------------------------- *)
\* prepareFrame going on to the acquire without waiting for the fence of
\* the frame slot
PrepareFrame_noFenceWait(acquire, limit) ==
    /\ mpc = "prepareFrame"
    /\ frames < limit
    /\ inflight' = IF acquire = "out_of_date" THEN waitIdle(inflight) ELSE inflight
    /\ cmdModels' = PendingDraws(cmdModels, inflight')
    /\ mpc' = "record"
    /\ UNCHANGED <<cmdRefs, frames, frameIndex>>
    /\ UNCHANGED <<fsVars, fwVars, clientVars, content, pipeVars, modelVars, flagVars, histVars>>

\* VulkanApplication::prepareFrame: wait for the slot's fence, acquire
\* (an out-of-date or suboptimal swap chain leads to windowResize, which
\* waits for the device to be idle). limit is the number of frames the
\* specification lets the loop render.
PrepareFrame(acquire, limit) ==
    /\ mpc = "prepareFrame"
    /\ frames < limit
    /\ frameIndex \notin inflight
    /\ inflight' = IF acquire = "out_of_date" THEN waitIdle(inflight) ELSE inflight
    /\ cmdModels' = PendingDraws(cmdModels, inflight')
    /\ mpc' = "record"
    /\ UNCHANGED <<cmdRefs, frames, frameIndex>>
    /\ UNCHANGED <<fsVars, fwVars, clientVars, content, pipeVars, modelVars, flagVars, histVars>>

\* what reading through a pointer to a deleted Model does
DanglingOutcomes == {"crash", "continue"}

\* recordCommandBuffer: binds the skybox and gltf pipelines, draws the crate
\* model of the asset table and the model of every actor inside the view
\* frustum. Every actor's model is read (getRadius) whether visible or not.
RecordCommandBuffer(visible, dangling) ==
    /\ mpc = "record"
    /\ IF (\E a \in ActorNames : actors[a] \in deletedModels) /\ dangling = "crash"
       THEN /\ mpc' = "aborted"
            /\ UNCHANGED <<cmdRefs, cmdModels>>
       ELSE /\ cmdRefs' = [cmdRefs EXCEPT ![frameIndex] = {handle[p] : p \in BoundPipelines}]
            /\ cmdModels' = [cmdModels EXCEPT ![frameIndex] =
                                {models["crate"]} \cup {actors[a] : a \in visible}]
            /\ mpc' = "submit"
    /\ UNCHANGED <<inflight, frames, frameIndex>>
    /\ UNCHANGED <<fsVars, fwVars, clientVars, content, pipeVars, modelVars, flagVars, histVars>>

\* VulkanApplication::submitFrame: submit, present, advance frameIndex
SubmitFrame(present) ==
    /\ mpc = "submit"
    /\ frames' = frames + 1
    /\ IF present = "out_of_date"
       THEN /\ inflight' = waitIdle(inflight \cup {frameIndex})
            /\ UNCHANGED frameIndex
       ELSE /\ inflight' = inflight \cup {frameIndex}
            /\ frameIndex' = IF frameIndex + 1 >= renderAhead THEN 0 ELSE frameIndex + 1
    /\ mpc' = "pipelines"
    /\ pi' = 1
    /\ cmdModels' = PendingDraws(cmdModels, inflight')
    /\ UNCHANGED cmdRefs
    /\ passFlagged' = {p \in Pipelines : wantsReload[p]} \cup
                      {models[n] : n \in {x \in DOMAIN models : modelWantsReload[models[x]]}}
    /\ passInvoked' = {}
    /\ UNCHANGED <<handle, nextHandle, destroyed, shaderModules, liveModules>>
    /\ UNCHANGED <<fsVars, fwVars, clientVars, content, modelVars, flagVars>>
    /\ UNCHANGED <<handleBefore, rebuildFailed, rearmed, ctorFailed>>

\* the pipeline whose turn it is in the reload pass
CurPipeline == pipelineList[pi]

\* render(): a loop that reloads the first flagged pipeline only and
\* leaves the later ones to the next frames
PipelineLoop_firstOnly ==
    /\ mpc = "pipelines"
    /\ IF pi > Len(pipelineList)
       THEN /\ mpc' = "models"
            /\ mToVisit' = DOMAIN models
            /\ UNCHANGED pi
       ELSE /\ IF wantsReload[CurPipeline] /\ passInvoked = {}
               THEN mpc' = "reload" /\ UNCHANGED pi
               ELSE mpc' = "pipelines" /\ pi' = pi + 1
            /\ UNCHANGED mToVisit
    /\ UNCHANGED <<frames, frameIndex, gpuVars, flagVars>>
    /\ UNCHANGED <<handle, nextHandle, destroyed, shaderModules, liveModules>>
    /\ UNCHANGED <<models, deletedModels, nextModelPtr, newModel, it, actors>>
    /\ UNCHANGED <<fsVars, fwVars, clientVars, content, histVars>>

\* render(): for (auto& pipeline : pipelineList) if (pipeline->wantsReload)
PipelineLoop ==
    /\ mpc = "pipelines"
    /\ IF pi > Len(pipelineList)
       THEN /\ mpc' = "models"
            /\ mToVisit' = DOMAIN models
            /\ UNCHANGED pi
       ELSE /\ IF wantsReload[CurPipeline]
               THEN mpc' = "reload" /\ UNCHANGED pi
               ELSE mpc' = "pipelines" /\ pi' = pi + 1
            /\ UNCHANGED mToVisit
    /\ UNCHANGED <<frames, frameIndex, gpuVars, flagVars>>
    /\ UNCHANGED <<handle, nextHandle, destroyed, shaderModules, liveModules>>
    /\ UNCHANGED <<models, deletedModels, nextModelPtr, newModel, it, actors>>
    /\ UNCHANGED <<fsVars, fwVars, clientVars, content, histVars>>

(* ---------------------------------------------------------------------- *)
(* Pipeline::reload and Pipeline::createPipelineObject                     *)
(* ---------------------------------------------------------------------- *)
\* a VkShaderModule variable that vkCreateShaderModule did not write
GarbageModule == 0

\* reload(): assert(initialCreateInfo); device.waitIdle()
ReloadWaitIdle ==
    /\ mpc = "reload"
    /\ passInvoked' = passInvoked \cup {CurPipeline}
    /\ IF initialCreateInfo(CurPipeline) = nullptr
       THEN /\ mpc' = "assert_failed"
            /\ UNCHANGED <<inflight, cmdModels, handleBefore, rebuildFailed, rearmed>>
       ELSE /\ inflight' = waitIdle(inflight)
            /\ mpc' = "reload_destroy"
            /\ handleBefore' = handle[CurPipeline]
            /\ rebuildFailed' = FALSE
            /\ rearmed' = rearmed \ {CurPipeline}
            /\ cmdModels' = PendingDraws(cmdModels, inflight')
    /\ UNCHANGED <<cmdRefs, frames, frameIndex, ctorFailed, passFlagged>>
    /\ UNCHANGED <<fsVars, fwVars, clientVars, content, pipeVars, modelVars, flagVars>>

\* reload(): vkDestroyPipeline(device, handle, nullptr)
ReloadDestroy ==
    /\ mpc = "reload_destroy"
    /\ destroyed' = destroyed \cup ({handle[CurPipeline]} \ {VK_NULL_HANDLE})
    /\ shaderModules' = <<>>
    /\ mpc' = "create_shader"
    /\ UNCHANGED <<handle, nextHandle, pi, liveModules>>
    /\ UNCHANGED <<frames, frameIndex, gpuVars>>
    /\ UNCHANGED <<fsVars, fwVars, clientVars, content, modelVars, flagVars, histVars>>

\* createPipelineObject: one iteration of the loop over createInfo.shaders.
\* A file that yields no shader module either stops the process
\* (assert(shaderSize > 0), or VK_CHECK_RESULT treating the VkResult as
\* fatal) or, with the checks compiled out, leaves shaderModule unwritten.
LoadShader(check) ==
    /\ mpc = "create_shader"
    /\ Len(shaderModules) < Len(Shaders(CurPipeline))
    /\ LET k == Len(shaderModules) + 1
           filename == Shaders(CurPipeline)[k]
       IN IF content[filename] = "valid"
          THEN /\ shaderModules' = Append(shaderModules, k)
               /\ liveModules' = liveModules \cup {k}
               /\ UNCHANGED <<mpc, rebuildFailed>>
          ELSE /\ rebuildFailed' = TRUE
               /\ IF check = "abort"
                  THEN /\ mpc' = "aborted"
                       /\ UNCHANGED <<shaderModules, liveModules>>
                  ELSE /\ shaderModules' = Append(shaderModules, GarbageModule)
                       /\ UNCHANGED <<mpc, liveModules>>
    /\ UNCHANGED <<handle, nextHandle, destroyed, pi>>
    /\ UNCHANGED <<frames, frameIndex, gpuVars>>
    /\ UNCHANGED <<fsVars, fwVars, clientVars, content, modelVars, flagVars, handleBefore, rearmed, ctorFailed, passVars>>

\* createPipelineObject: vkCreateGraphicsPipelines(..., &handle)
CreatePipeline(check) ==
    /\ mpc = "create_shader"
    /\ Len(shaderModules) = Len(Shaders(CurPipeline))
    /\ IF \A i \in 1..Len(shaderModules) : shaderModules[i] # GarbageModule
       THEN /\ handle' = [handle EXCEPT ![CurPipeline] = nextHandle]
            /\ nextHandle' = nextHandle + 1
            /\ mpc' = "create_cleanup"
            /\ UNCHANGED rebuildFailed
       ELSE /\ rebuildFailed' = TRUE
            /\ IF check = "abort"
               THEN /\ mpc' = "aborted"
                    /\ UNCHANGED <<handle, nextHandle>>
               ELSE /\ handle' = [handle EXCEPT ![CurPipeline] = VK_NULL_HANDLE]
                    /\ mpc' = "create_cleanup"
                    /\ UNCHANGED nextHandle
    /\ UNCHANGED <<destroyed, pi, shaderModules, liveModules>>
    /\ UNCHANGED <<frames, frameIndex, gpuVars>>
    /\ UNCHANGED <<fsVars, fwVars, clientVars, content, modelVars, flagVars, handleBefore, rearmed, ctorFailed, passVars>>

\* createPipelineObject: the shader modules are destroyed; reload() returns
DestroyShaderModules ==
    /\ mpc = "create_cleanup"
    /\ liveModules' = {}
    /\ shaderModules' = <<>>
    /\ mpc' = "reloaded"
    /\ UNCHANGED <<handle, nextHandle, destroyed, pi>>
    /\ UNCHANGED <<frames, frameIndex, gpuVars>>
    /\ UNCHANGED <<fsVars, fwVars, clientVars, content, modelVars, flagVars, histVars>>

\* a reload() that clears wantsReload when the rebuild is over
ReloadReturn_clearFlag ==
    /\ mpc = "reloaded"
    /\ pi' = pi + 1
    /\ mpc' = "pipelines"
    /\ wantsReload' = [wantsReload EXCEPT ![CurPipeline] = FALSE]
    /\ UNCHANGED <<handle, nextHandle, destroyed, shaderModules, liveModules>>
    /\ UNCHANGED <<frames, frameIndex, gpuVars, modelWantsReload>>
    /\ UNCHANGED <<fsVars, fwVars, clientVars, content, modelVars, histVars>>

\* render(): reload() has returned, the loop goes to the next pipeline
ReloadReturn ==
    /\ mpc = "reloaded"
    /\ pi' = pi + 1
    /\ mpc' = "pipelines"
    /\ UNCHANGED <<handle, nextHandle, destroyed, shaderModules, liveModules>>
    /\ UNCHANGED <<frames, frameIndex, gpuVars>>
    /\ UNCHANGED <<fsVars, fwVars, clientVars, content, modelVars, flagVars, histVars>>

(* ---------------------------------------------------------------------- *)
(* render(): replacement of the models that want a reload                  *)
(* ---------------------------------------------------------------------- *)
\* for (auto& it : assetManager->models) if (it.second->wantsReload)
\*     newModel = new vkglTF::Model(*it.second->initialCreateInfo)
ModelLoop(n, ctor) ==
    /\ mpc = "models"
    /\ n \in mToVisit
    /\ IF modelWantsReload[models[n]]
       THEN /\ passInvoked' = passInvoked \cup {models[n]}
            /\ ctorFailed' = IF content[ModelFile(n)] # "valid"
                             THEN ctorFailed \cup {[name |-> n, old |-> models[n]]}
                             ELSE ctorFailed
            /\ IF content[ModelFile(n)] # "valid" /\ ctor = "throw"
               THEN /\ mpc' = "aborted"
                    /\ UNCHANGED <<newModel, nextModelPtr, modelWantsReload, mToVisit, it>>
               ELSE /\ newModel' = nextModelPtr
                    /\ nextModelPtr' = nextModelPtr + 1
                    /\ modelWantsReload' =
                           [m \in DOMAIN modelWantsReload \cup {nextModelPtr} |->
                               IF m = nextModelPtr THEN FALSE ELSE modelWantsReload[m]]
                    /\ mpc' = "model_delete"
                    /\ mToVisit' = mToVisit \ {n}
                    /\ it' = n
       ELSE /\ mToVisit' = mToVisit \ {n}
            /\ UNCHANGED <<mpc, newModel, nextModelPtr, modelWantsReload, it, ctorFailed, passInvoked>>
    /\ UNCHANGED <<models, deletedModels, actors, wantsReload>>
    /\ UNCHANGED <<frames, frameIndex, gpuVars, pipeVars>>
    /\ UNCHANGED <<fsVars, fwVars, clientVars, content, handleBefore, rebuildFailed, rearmed, passFlagged>>

\* vkglTF::Model::~Model: what is still executing on the GPU when the
\* destructor releases the vertex and index buffers. The destruction of a
\* Model is not gated by a device-idle wait.
freeResources(executing) == executing

\* delete it.second
ModelDelete ==
    /\ mpc = "model_delete"
    /\ inflight' = freeResources(inflight)
    /\ cmdModels' = PendingDraws(cmdModels, inflight')
    /\ deletedModels' = deletedModels \cup {models[it]}
    /\ mpc' = "model_assign"
    /\ UNCHANGED <<models, nextModelPtr, mToVisit, newModel, it, actors>>
    /\ UNCHANGED <<frames, frameIndex, cmdRefs, pipeVars, flagVars>>
    /\ UNCHANGED <<fsVars, fwVars, clientVars, content, histVars>>

\* it.second = newModel
ModelAssign ==
    /\ mpc = "model_assign"
    /\ models' = [models EXCEPT ![it] = newModel]
    /\ mpc' = "models"
    /\ UNCHANGED <<deletedModels, nextModelPtr, newModel, mToVisit, it, actors>>
    /\ UNCHANGED <<frames, frameIndex, gpuVars, pipeVars, flagVars>>
    /\ UNCHANGED <<fsVars, fwVars, clientVars, content, histVars>>

\* render() returns; the frame loop calls it again
RenderReturn ==
    /\ mpc = "models"
    /\ mToVisit = {}
    /\ mpc' = "prepareFrame"
    /\ passFlagged' = {}
    /\ passInvoked' = {}
    /\ UNCHANGED <<frames, frameIndex, gpuVars, pipeVars, modelVars, flagVars>>
    /\ UNCHANGED <<fsVars, fwVars, clientVars, content>>
    /\ UNCHANGED <<handleBefore, rebuildFailed, rearmed, ctorFailed>>

(* ---------------------------------------------------------------------- *)
(* End of the render loop and Application::~Application                    *)
(* ---------------------------------------------------------------------- *)
\* renderLoop(): quit is set; the device is flushed and the entry point
\* deletes the application
RenderLoopExit ==
    /\ mpc = "prepareFrame"
    /\ inflight' = waitIdle(inflight)
    /\ cmdModels' = PendingDraws(cmdModels, inflight')
    /\ mpc' = "dtor_stop"
    /\ UNCHANGED <<cmdRefs, frames, frameIndex>>
    /\ UNCHANGED <<fsVars, fwVars, clientVars, content, pipeVars, modelVars, flagVars, histVars>>

\* ~Application: fileWatcher->stop(), first statement: active = false
DtorStop ==
    /\ mpc = "dtor_stop"
    /\ active' = FALSE
    /\ mpc' = "dtor_join"
    /\ UNCHANGED <<files, wpc, toVisit, tickCalls, changedAtStart, tickOld>>
    /\ UNCHANGED <<frames, frameIndex>>
    /\ UNCHANGED <<fsVars, clientVars, content, gpuVars, pipeVars, modelVars, flagVars, histVars>>

\* ~Application going on to delete the watcher without joining its thread
DtorJoin_noWait ==
    /\ mpc = "dtor_join"
    /\ files' = <<>>
    /\ mpc' = "dtor_pipelines"
    /\ UNCHANGED <<active, wpc, toVisit, tickCalls, changedAtStart, tickOld>>
    /\ UNCHANGED <<frames, frameIndex>>
    /\ UNCHANGED <<fsVars, clientVars, content, gpuVars, pipeVars, modelVars, flagVars, histVars>>

\* ~Application: thread.join() returns, stop() returns, delete fileWatcher
DtorJoin ==
    /\ mpc = "dtor_join"
    /\ wpc = "exited"
    /\ files' = <<>>
    /\ mpc' = "dtor_pipelines"
    /\ UNCHANGED <<active, wpc, toVisit, tickCalls, changedAtStart, tickOld>>
    /\ UNCHANGED <<frames, frameIndex>>
    /\ UNCHANGED <<fsVars, clientVars, content, gpuVars, pipeVars, modelVars, flagVars, histVars>>

\* ~Application: for (auto& it : pipelines) delete it.second
DtorPipelines ==
    /\ mpc = "dtor_pipelines"
    /\ destroyed' = destroyed \cup ({handle[p] : p \in Pipelines} \ {VK_NULL_HANDLE})
    /\ mpc' = "dtor_assets"
    /\ UNCHANGED <<handle, nextHandle, pi, shaderModules, liveModules>>
    /\ UNCHANGED <<frames, frameIndex>>
    /\ UNCHANGED <<fsVars, fwVars, clientVars, content, gpuVars, modelVars, flagVars, histVars>>

\* ~Application: delete assetManager (every model of the table is deleted),
\* delete actorManager
DtorAssets ==
    /\ mpc = "dtor_assets"
    /\ deletedModels' = deletedModels \cup {models[n] : n \in DOMAIN models}
    /\ mpc' = "done"
    /\ UNCHANGED <<models, nextModelPtr, mToVisit, it, newModel, actors>>
    /\ UNCHANGED <<frames, frameIndex>>
    /\ UNCHANGED <<fsVars, fwVars, clientVars, content, gpuVars, pipeVars, flagVars, histVars>>

Init ==
    /\ mtime = [f \in Paths |-> 1]
    /\ touches = 0
    /\ missing = {}
    /\ files = <<>>
    /\ active = TRUE
    /\ wpc = "none"
    /\ toVisit = {}
    /\ tickCalls = <<>>
    /\ changedAtStart = {}
    /\ tickOld = <<>>
    /\ cpc = "setup"
    /\ adds = 0
    /\ content = [f \in Paths |-> "valid"]
    /\ mpc = "start"
    /\ frames = 0
    /\ frameIndex = 0
    /\ inflight = {}
    /\ cmdRefs = [s \in 0..(renderAhead - 1) |-> {}]
    /\ cmdModels = [s \in 0..(renderAhead - 1) |-> {}]
    /\ handle = [p \in Pipelines |-> VK_NULL_HANDLE]
    /\ nextHandle = 1
    /\ destroyed = {}
    /\ wantsReload = [p \in AllPipelines |-> FALSE]
    /\ pi = 1
    /\ shaderModules = <<>>
    /\ liveModules = {}
    /\ models = <<>>
    /\ modelWantsReload = <<>>
    /\ deletedModels = {}
    /\ nextModelPtr = FirstModelPtr
    /\ actors = <<>>
    /\ mToVisit = {}
    /\ it = ""
    /\ newModel = 0
    /\ handleBefore = VK_NULL_HANDLE
    /\ rebuildFailed = FALSE
    /\ rearmed = {}
    /\ ctorFailed = {}
    /\ passFlagged = {}
    /\ passInvoked = {}

NextFW ==
    \/ \E f \in HarnessPaths : Write(f)
    \/ \E f \in HarnessPaths : Delete(f)
    \/ \E f \in HarnessPaths, o \in HarnessOwners : CAddFile(f, o)
    \/ CStart
    \/ CStop
    \/ CJoin
    \/ Watcher

SpecFW == Init /\ [][NextFW]_vars

\* what VK_CHECK_RESULT does with a VkResult other than VK_SUCCESS: it stops
\* the process or, compiled without the check, lets the caller go on
VkCheckOutcomes == {"abort", "continue"}

\* a Model constructor that cannot load its file throws or returns
CtorOutcomes == {"throw", "return"}

\* VkResult of acquireNextImage and of queuePresent
PresentResults == {"ok", "out_of_date"}

Next ==
    \/ \E f \in EditedPaths, c \in Contents : Touch(f, c)
    \/ Prepare
    \/ WWhile
    \/ WWake
    \/ WCheck(IterFirst(toVisit))
    \/ WEndFor
    \/ \E slot \in 0..(renderAhead - 1) : GpuFinish(slot)
    \/ \E acquire \in PresentResults : PrepareFrame(acquire, MaxFrames)
    \/ \E visible \in SUBSET ActorNames, dangling \in DanglingOutcomes :
          RecordCommandBuffer(visible, dangling)
    \/ \E present \in PresentResults : SubmitFrame(present)
    \/ PipelineLoop
    \/ ReloadWaitIdle
    \/ ReloadDestroy
    \/ \E check \in VkCheckOutcomes : LoadShader(check)
    \/ \E check \in VkCheckOutcomes : CreatePipeline(check)
    \/ DestroyShaderModules
    \/ ReloadReturn
    \/ \E ctor \in CtorOutcomes : ModelLoop(IterFirst(mToVisit), ctor)
    \/ ModelDelete
    \/ ModelAssign
    \/ RenderReturn
    \/ RenderLoopExit
    \/ DtorStop
    \/ DtorJoin
    \/ DtorPipelines
    \/ DtorAssets

Spec == Init /\ [][Next]_vars

(* ---------------------------------------------------------------------- *)
(* SpecEdits: the application while the user saves files repeatedly, each  *)
(* time with content that builds, and the swap chain stays valid           *)
(* ---------------------------------------------------------------------- *)
NextEdits ==
    \/ \E f \in EditedPaths : Edit(f)
    \/ Prepare
    \/ WWhile
    \/ WWake
    \/ WCheck(IterFirst(toVisit))
    \/ WEndFor
    \/ \E slot \in 0..(renderAhead - 1) : GpuFinish(slot)
    \/ PrepareFrame("ok", MaxFrames)
    \/ \E visible \in SUBSET ActorNames, dangling \in DanglingOutcomes :
          RecordCommandBuffer(visible, dangling)
    \/ SubmitFrame("ok")
    \/ PipelineLoop
    \/ ReloadWaitIdle
    \/ ReloadDestroy
    \/ \E check \in VkCheckOutcomes : LoadShader(check)
    \/ \E check \in VkCheckOutcomes : CreatePipeline(check)
    \/ DestroyShaderModules
    \/ ReloadReturn
    \/ \E ctor \in CtorOutcomes : ModelLoop(IterFirst(mToVisit), ctor)
    \/ ModelDelete
    \/ ModelAssign
    \/ RenderReturn
    \/ RenderLoopExit
    \/ DtorStop
    \/ DtorJoin
    \/ DtorPipelines
    \/ DtorAssets

SpecEdits == Init /\ [][NextEdits]_vars

(* ---------------------------------------------------------------------- *)
(* SpecFrames: the frame loop of the application while no watched file is  *)
(* edited                                                                  *)
(* ---------------------------------------------------------------------- *)
NextFrames ==
    \/ Prepare
    \/ WWhile
    \/ WWake
    \/ WCheck(IterFirst(toVisit))
    \/ WEndFor
    \/ \E slot \in 0..(renderAhead - 1) : GpuFinish(slot)
    \/ \E acquire \in PresentResults : PrepareFrame(acquire, MaxPaced)
    \/ \E visible \in SUBSET ActorNames, dangling \in DanglingOutcomes :
          RecordCommandBuffer(visible, dangling)
    \/ \E present \in PresentResults : SubmitFrame(present)
    \/ PipelineLoop
    \/ \E ctor \in CtorOutcomes : ModelLoop(IterFirst(mToVisit), ctor)
    \/ RenderReturn
    \/ RenderLoopExit
    \/ DtorStop
    \/ DtorJoin
    \/ DtorPipelines
    \/ DtorAssets

SpecFrames == Init /\ [][NextFrames]_vars

(* ---------------------------------------------------------------------- *)
(* Properties of Pipeline::reload (checked under Spec)                     *)
(* ---------------------------------------------------------------------- *)
\* the reload() call of the current pipeline has ended: it returned, or the
\* process was stopped inside it
ReloadEnded == mpc = "reloaded" \/ (mpc = "aborted" /\ rebuildFailed)

\* C1: rollback on failure - when the rebuild of a pipeline has failed, the
\* pipeline's handle after the reload attempt is the handle it had before
\* the attempt, and that handle has not been destroyed.
C1_RollbackOnFailure ==
    (ReloadEnded /\ rebuildFailed) =>
        /\ handle[CurPipeline] = handleBefore
        /\ handleBefore \notin destroyed

\* C2: two-phase ordering - the old handle of a pipeline being reloaded is
\* destroyed only after the new pipeline object exists: whenever the old
\* handle has been destroyed, the pipeline holds a new, non-null handle.
C2_DestroyOnlyAfterConstruct ==
    (mpc \in {"create_shader", "create_cleanup", "reloaded"} /\ handleBefore \in destroyed) =>
        /\ handle[CurPipeline] # handleBefore
        /\ handle[CurPipeline] # VK_NULL_HANDLE

\* C3: after every reload attempt the live handle is non-null and has not
\* been destroyed, and no attempt ends in a terminal failure state.
C3_UsableAfterReload ==
    /\ mpc = "reloaded" =>
        /\ handle[CurPipeline] # VK_NULL_HANDLE
        /\ handle[CurPipeline] \notin destroyed
    /\ ~(mpc = "aborted" /\ rebuildFailed)

\* C4: at the moment reload() destroys the old handle, no command buffer
\* that is submitted and unfinished references that handle.
C4_IdleAtDestroy ==
    mpc = "reload_destroy" =>
        \A slot \in inflight : handle[CurPipeline] \notin cmdRefs[slot]

\* C4 witness: reload() is about to destroy a handle that a submitted
\* command buffer was recorded with.
C4_Witness ==
    /\ mpc = "reload_destroy"
    /\ frames > 0
    /\ \E slot \in 0..(renderAhead - 1) : handle[CurPipeline] \in cmdRefs[slot]

\* C5: reload() clears wantsReload - when reload() has returned for a
\* pipeline and the callback has not written the flag since the call began,
\* the pipeline's wantsReload is false.
C5_ReloadClearsFlag ==
    (mpc = "reloaded" /\ CurPipeline \notin rearmed) => ~wantsReload[CurPipeline]

\* C6: a failed hot reload is never fatal - the process is never stopped
\* inside render().
C6_NeverFatal == mpc # "aborted"

\* C7: strict cleanup - when a failed rebuild ends, no shader module of the
\* attempt is still allocated and the pipeline holds no object of the attempt.
C7_StrictCleanup ==
    (ReloadEnded /\ rebuildFailed) =>
        /\ liveModules = {}
        /\ handle[CurPipeline] \in {handleBefore, VK_NULL_HANDLE}

(* ---------------------------------------------------------------------- *)
(* Properties of FileWatcher (checked under SpecFW)                        *)
(* ---------------------------------------------------------------------- *)
\* the owners of a list, as a set
Range(seq) == {seq[i] : i \in 1..Len(seq)}

\* the invocations of onFileChanged of the current tick that name path f
CallsFor(f) == {i \in 1..Len(tickCalls) : tickCalls[i].path = f}

\* C8: fan-out - in one poll tick a changed path causes exactly one
\* invocation of onFileChanged, whose owner list holds every owner
\* registered for the path: never one invocation per owner.
C8_FanOut ==
    /\ \A f \in DOMAIN files : Cardinality(CallsFor(f)) <= 1
    /\ \A i \in 1..Len(tickCalls) :
          Range(files[tickCalls[i].path].owners) \subseteq Range(tickCalls[i].owners)
    /\ wpc = "while" => \A f \in changedAtStart : Cardinality(CallsFor(f)) = 1

\* C8 witness: a tick has ended in which a path registered for X, Y and Z
\* was reported.
C8_Witness ==
    /\ wpc = "while"
    /\ \E i \in 1..Len(tickCalls) :
          /\ HarnessOwners \subseteq Range(files[tickCalls[i].path].owners)
          /\ tickCalls[i].path \in changedAtStart

\* C9: idempotent re-registration - no owner occurs more than once in the
\* owner collection of a path.
C9_NoDuplicateOwner ==
    \A f \in DOMAIN files :
        \A i, j \in 1..Len(files[f].owners) :
            files[f].owners[i] = files[f].owners[j] => i = j

\* C10: addFile on a registered path leaves the stored modification time of
\* that path and every other entry unchanged; only the owner collection of
\* that path grows, by the new owner.
C10_AddFileKeepsTime ==
    [][(cpc = "setup" /\ files' # files) =>
        \A f \in DOMAIN files :
            /\ f \in DOMAIN files'
            /\ files'[f].filetime = files[f].filetime
            /\ files'[f] # files[f] =>
                  /\ DOMAIN files' = DOMAIN files
                  /\ \E o \in HarnessOwners : files'[f].owners = Append(files[f].owners, o)
                  /\ \A g \in DOMAIN files \ {f} : files'[g] = files[g]]_vars

\* C10 witness: before start(), a path that was written after its
\* registration has had a second owner attached.
C10_Witness ==
    /\ cpc = "setup"
    /\ \E f \in DOMAIN files :
          /\ Len(files[f].owners) >= 2
          /\ files[f].filetime # last_write_time(f)

\* C11: debounce - within one poll tick a path triggers the callback at
\* most once; a path whose time differed when the tick began (however many
\* writes lie behind the difference) has caused exactly one invocation when
\* the tick ends, and the time stored by the reporting iteration is the
\* time of the file's last write.
C11_Debounce ==
    /\ [](\A i, j \in 1..Len(tickCalls) :
              tickCalls[i].path = tickCalls[j].path => i = j)
    /\ [](wpc = "while" =>
              \A f \in changedAtStart : \E i \in 1..Len(tickCalls) : tickCalls[i].path = f)
    /\ [][\A f \in DOMAIN files :
              Len(tickCalls') > Len(tickCalls) /\ tickCalls'[Len(tickCalls')].path = f
                  => files'[f].filetime = mtime[f]]_vars

\* C11 witness: a tick has ended in which one invocation covered two or
\* more writes of a path.
C11_Witness ==
    /\ wpc = "while"
    /\ \E i \in 1..Len(tickCalls) :
          /\ files[tickCalls[i].path].filetime >= tickOld[i] + 2
          /\ Cardinality(CallsFor(tickCalls[i].path)) = 1

\* C12: clean shutdown - stop() has returned only if the watcher thread has
\* exited, and once stop() has returned onFileChanged is not invoked again.
C12_CleanShutdown ==
    /\ [](cpc = "stopped" => wpc = "exited")
    /\ [][cpc = "stopped" => tickCalls' = tickCalls]_vars

\* C12 witness: stop() has returned and a watched file carries a write that
\* was never reported.
C12_Witness ==
    /\ cpc = "stopped"
    /\ \E f \in DOMAIN files : files[f].filetime # last_write_time(f)

\* C20: watcher error containment - a failure to read the time of a
\* watched path does not leave the watcher thread: the process is never
\* ended by an exception escaping watch().
C20_ErrorContained == wpc # "terminated"

(* ---------------------------------------------------------------------- *)
(* Properties of the reload pass and of teardown (checked under Spec)      *)
(* ---------------------------------------------------------------------- *)
\* positions of the render thread inside the reload pass of render()
PassStates ==
    {"pipelines", "reload", "reload_destroy", "create_shader", "create_cleanup",
     "reloaded", "models", "model_delete", "model_assign"}

\* positions of the main thread after the render loop has ended
DtorStates == {"dtor_stop", "dtor_join", "dtor_pipelines", "dtor_assets", "done"}

\* the step was taken by the (started) watcher thread
WatcherStepped == wpc # "none" /\ (wpc' # wpc \/ toVisit' # toVisit)

\* the step created or destroyed a pipeline object, a shader module or a Model
GpuObjectsChanged ==
    \/ handle' # handle
    \/ destroyed' # destroyed
    \/ liveModules' # liveModules
    \/ models' # models
    \/ deletedModels' # deletedModels
    \/ nextModelPtr' # nextModelPtr

\* C13: reload operations run only on the render thread, inside the pass
\* that follows the submission of the frame's command buffer: a step of
\* the watcher thread creates, destroys and waits for nothing; while the
\* frame loop runs, objects are created or destroyed only inside the pass;
\* and the pass is entered only by submitFrame returning.
C13_ReloadOnRenderThread ==
    [][/\ WatcherStepped => (~GpuObjectsChanged /\ inflight' = inflight)
       /\ (GpuObjectsChanged /\ mpc \notin ({"start"} \cup DtorStates)) => mpc \in PassStates
       /\ (mpc' \in PassStates /\ mpc \notin PassStates) =>
              (mpc = "submit" /\ frames' = frames + 1)]_vars

\* C13 witness: after a callback of the watcher, the pass of a frame has
\* replaced a model.
C13_Witness ==
    /\ mpc \in PassStates
    /\ frames > 0
    /\ deletedModels # {}
    /\ \E m \in DOMAIN modelWantsReload : modelWantsReload[m]

\* C15: construct-before-destroy for models - when the construction of a
\* replacement Model has failed, the old Model is still the entry of the
\* asset table, has not been deleted, and the application goes on drawing.
C15_ConstructBeforeDestroy ==
    mpc # "done" =>
        \A r \in ctorFailed :
            /\ models[r.name] = r.old
            /\ r.old \notin deletedModels
            /\ mpc # "aborted"

\* C16: after a successful Model reload both the asset-table entry and the
\* model pointer of every actor created from it refer to the new instance:
\* no actor points to a deleted Model.
C16_ActorsRepointed ==
    (ctorFailed = {} /\ mpc \notin {"start", "model_assign", "done"}) =>
        \A a \in ActorNames :
            /\ actors[a] = models[ActorModel(a)]
            /\ actors[a] \notin deletedModels

\* C17: when the reload pass has deleted the old Model, no frame that is
\* submitted and still unfinished at that moment draws from its buffers.
C17_ModelIdleAtDelete ==
    [][(mpc = "model_delete" /\ deletedModels' # deletedModels) =>
          \A slot \in inflight' : models[it] \notin cmdModels[slot]]_vars

\* C18: while the watcher thread runs, every owner stored in a watch entry
\* refers to a Pipeline or Model that has not been deleted.
C18_OwnersValid ==
    wpc \in {"while", "sleep", "for"} =>
        \A f \in DOMAIN files : \A i \in 1..Len(files[f].owners) :
            /\ files[f].owners[i] \notin deletedModels
            /\ files[f].owners[i] \in Pipelines => mpc \notin {"dtor_assets", "done"}

\* C19: at teardown the watcher thread has exited before any registered
\* pipeline or model is destroyed, and no callback is invoked and no flag
\* is written from then on.
C19_TeardownOrder ==
    /\ [](mpc \in {"dtor_pipelines", "dtor_assets", "done"} => wpc = "exited")
    /\ [][(mpc \in DtorStates /\ (destroyed' # destroyed \/ deletedModels' # deletedModels))
              => wpc = "exited"]_vars
    /\ [][(mpc \in {"dtor_pipelines", "dtor_assets", "done"}) =>
              (tickCalls' = tickCalls /\ flagVars' = flagVars)]_vars

\* C19 witness: the application has been torn down after a watched file
\* was written, and the write was never reported.
C19_Witness ==
    /\ mpc = "done"
    /\ touches > 0
    /\ \A p \in Pipelines : ~wantsReload[p]
    /\ \A m \in DOMAIN modelWantsReload : ~modelWantsReload[m]

\* the Model m is an entry of the asset table
InTable(m) == \E n \in DOMAIN models : models[n] = m

\* C14: eventual reload - a set flag is served by the next pass that begins
\* with it: when the pass of a frame ends, the reload operation has been
\* invoked for every registered pipeline and every Model of the asset table
\* whose wantsReload was set when the pass began; and until its reload
\* operation is invoked a set flag stays set (and, while the frame loop
\* runs, a flagged Model stays in the table), so it is still set when the
\* next frame's pass begins.
C14_EventualReload ==
    /\ []((mpc = "models" /\ mToVisit = {}) => passFlagged \subseteq passInvoked)
    /\ [][\A p \in Pipelines :
              wantsReload[p] => (wantsReload'[p] \/ p \in passInvoked')]_vars
    /\ [][\A m \in DOMAIN modelWantsReload :
              (/\ modelWantsReload[m] /\ InTable(m) /\ m \notin deletedModels
               /\ mpc \notin DtorStates) =>
                  \/ modelWantsReload'[m] /\ InTable(m)' /\ m \notin deletedModels'
                  \/ m \in passInvoked']_vars

\* C14 witness: the flags of the playership and gltf pipelines were set
\* too late for the pass of the first frame, and the pass of the second
\* frame has invoked both reloads, the first ones of the run.
C14_Witness ==
    /\ mpc = "models"
    /\ mToVisit = {}
    /\ frames = 2
    /\ Cardinality(destroyed) = 2
    /\ passFlagged = {PPlayership, PGltf}
    /\ passInvoked = {PPlayership, PGltf}

(* ---------------------------------------------------------------------- *)
(* Properties of registration and of the flags (checked under Spec)        *)
(* ---------------------------------------------------------------------- *)
\* the structure of the registry: its paths and the owner list of each
Structure(fs) == [f \in DOMAIN fs |-> fs[f].owners]

\* the Model objects loadAssets() created, by name
InitialModels == loadedModels(ModelNames, FirstModelPtr)

\* the watcher thread exists and has not exited
WatcherRuns == wpc \in {"while", "sleep", "for", "terminated"}

\* every pipeline of pipelineList is registered in fs under each of its
\* shader files and every loaded model under its file
Registered(fs) ==
    /\ \A p \in Pipelines : \A k \in 1..Len(Shaders(p)) :
          /\ Shaders(p)[k] \in DOMAIN fs
          /\ p \in Range(fs[Shaders(p)[k]].owners)
    /\ \A n \in ModelNames :
          /\ ModelFile(n) \in DOMAIN fs
          /\ InitialModels[n] \in Range(fs[ModelFile(n)].owners)

\* C21: the registry is structurally mutated only before the watcher
\* thread exists - when the thread is started, every pipeline of
\* pipelineList is registered under each of its shader files and every
\* loaded model under its file, and while the thread runs no step adds or
\* removes a path or an owner.
C21_RegistryFrozen ==
    /\ [][(wpc = "none" /\ wpc' # "none") => Registered(files')]_vars
    /\ [][(WatcherRuns /\ files' # files) => Structure(files') = Structure(files)]_vars

\* C21 witness: the polling loop has stored a new time in the registry,
\* whose structure is the one prepare() built.
C21_Witness ==
    /\ wpc = "for"
    /\ \E f \in DOMAIN files : files[f].filetime # 1
    /\ Structure(files) = Structure(addPipelines(loadAssets(<<>>, ModelNames, FirstModelPtr), pipelineList))

\* the pipelines built from shader file f
PipelinesOf(f) == {p \in Pipelines : \E k \in 1..Len(Shaders(p)) : Shaders(p)[k] = f}

\* the step is an iteration of watch() that found f changed
Detected(f) == f \in DOMAIN files /\ f \in DOMAIN files' /\ files'[f].filetime # files[f].filetime

\* C22: re-arm after failure - after a failed reload of pipeline P the
\* application keeps running with P registered, so that a later write of
\* one of P's shader files is detected; a detection sets P.wantsReload; and
\* a reload of P that finds valid shaders leaves P with a live handle that
\* differs from the original one.
C22_RearmAfterFailure ==
    /\ []((ReloadEnded /\ rebuildFailed) =>
              /\ ProcessAlive
              /\ wpc \in {"while", "sleep", "for"}
              /\ \A k \in 1..Len(Shaders(CurPipeline)) :
                    CurPipeline \in Range(files[Shaders(CurPipeline)[k]].owners))
    /\ [][\A f \in ShaderPaths : Detected(f) => \A p \in PipelinesOf(f) : wantsReload'[p]]_vars
    /\ []((mpc = "reloaded" /\ ~rebuildFailed) =>
              /\ handle[CurPipeline] \notin {CurPipeline, VK_NULL_HANDLE}
              /\ handle[CurPipeline] \notin destroyed)

\* C23: a detected change of file F sets wantsReload on exactly the owners
\* registered for F that are in pipelineList or in the asset table, and
\* leaves the flag of every other pipeline and Model as it was.
C23_FlagsExactlyOwners ==
    [][\A f \in Paths : Detected(f) =>
          /\ \A p \in AllPipelines :
                wantsReload'[p] = (wantsReload[p] \/ p \in Range(files[f].owners))
          /\ DOMAIN modelWantsReload' = DOMAIN modelWantsReload
          /\ \A m \in DOMAIN modelWantsReload :
                modelWantsReload'[m] =
                    (modelWantsReload[m] \/ (m \in Range(files[f].owners) /\ InTable(m)))]_vars

\* C23 witness: the change of the shared fragment shader has been reported
\* and has marked the playership and the gltf pipeline, not the skybox one.
C23_Witness ==
    /\ wpc = "for"
    /\ Len(tickCalls) = 1
    /\ tickCalls[1].path = "gltf.frag"
    /\ tickCalls[1].owners = <<PPlayership, PGltf>>
    /\ wantsReload = [p \in AllPipelines |-> p \in {PPlayership, PGltf}]
    /\ \A m \in DOMAIN modelWantsReload : ~modelWantsReload[m]

(* ---------------------------------------------------------------------- *)
(* Detection by modification time (checked under SpecFW)                   *)
(* ---------------------------------------------------------------------- *)
\* the step is the iteration of the for loop of watch() over path f
Iterated(f) == wpc = "for" /\ f \in toVisit /\ toVisit' = toVisit \ {f}

\* the step invoked onFileChanged for path f
Invoked(f) ==
    /\ Len(tickCalls') = Len(tickCalls) + 1
    /\ tickCalls'[Len(tickCalls')].path = f

\* C24: an iteration of the poll loop invokes the callback for its path if
\* and only if the current modification time differs from the stored one;
\* a detection stores the current time; a stored time that equals the
\* current one stays equal until the file is written again, so a write is
\* reported once and an unmodified file is not reported in later ticks.
C24_CallbackIffTimeDiffers ==
    /\ [][\A f \in DOMAIN files : Iterated(f) =>
              /\ Invoked(f) <=> files[f].filetime # mtime[f]
              /\ Invoked(f) => files'[f].filetime = mtime[f]
              /\ ~Invoked(f) => tickCalls' = tickCalls]_vars
    /\ [][(\E g \in DOMAIN files : Invoked(g)) =>
              \E g \in DOMAIN files : Iterated(g) /\ Invoked(g)]_vars
    /\ [][\A f \in DOMAIN files :
              (files[f].filetime = mtime[f] /\ mtime'[f] = mtime[f] /\ f \in DOMAIN files')
                  => files'[f].filetime = mtime'[f]]_vars

\* C24 witness: in one tick a path written since the last tick has been
\* reported once and its time stored, and a path written earlier and not
\* since has been passed over.
C24_Witness ==
    /\ wpc = "for"
    /\ toVisit = {}
    /\ \E f, g \in DOMAIN files :
          /\ f # g
          /\ f \in changedAtStart
          /\ Cardinality(CallsFor(f)) = 1
          /\ files[f].filetime = mtime[f]
          /\ g \notin changedAtStart
          /\ mtime[g] > 1
          /\ CallsFor(g) = {}

(* ---------------------------------------------------------------------- *)
(* Replacement of models (checked under Spec)                              *)
(* ---------------------------------------------------------------------- *)
\* C25: model replacement swaps before discarding - while the application
\* owns its asset table, no entry of the table points to a deleted Model,
\* and the pass deletes an old Model only once the entry holds the new one.
C25_SwapBeforeDiscard ==
    /\ [](mpc # "done" => \A n \in DOMAIN models : models[n] \notin deletedModels)
    /\ [][(mpc \in PassStates /\ deletedModels' # deletedModels) =>
              \A m \in deletedModels' \ deletedModels : ~InTable(m)]_vars

(* ---------------------------------------------------------------------- *)
(* Hot reload is limited to pipelines built for it (checked under Spec)    *)
(* ---------------------------------------------------------------------- *)
\* positions of the render thread inside Pipeline::reload
ReloadStates == {"reload", "reload_destroy", "create_shader", "create_cleanup", "reloaded"}

\* C26: reload() is invoked on, and addPipeline registers, only pipelines
\* built with enableHotReload = true - the process is never stopped by
\* assert(initialCreateInfo) or by addPipeline reading a null create info,
\* every pipeline among the owners of the registry and every pipeline
\* reload() runs on keeps a create-info snapshot, and a pipeline without a
\* snapshot never has wantsReload set and never has reload() invoked.
C26_HotReloadOnly ==
    /\ mpc \notin {"assert_failed", "null_deref"}
    /\ \A f \in DOMAIN files : \A o \in Range(files[f].owners) \cap AllPipelines :
          initialCreateInfo(o) # nullptr
    /\ mpc \in ReloadStates => initialCreateInfo(CurPipeline) # nullptr
    /\ \A p \in AllPipelines :
          initialCreateInfo(p) = nullptr => (~wantsReload[p] /\ p \notin passInvoked)

\* C26 witness: reload() runs on a registered pipeline that keeps a
\* snapshot while the overlay pipeline, which keeps none, is unmarked.
C26_Witness ==
    /\ mpc = "reload_destroy"
    /\ initialCreateInfo(CurPipeline) = [isNull |-> FALSE, shaders |-> Shaders(CurPipeline)]
    /\ CurPipeline \in passInvoked
    /\ initialCreateInfo(POverlay) = nullptr
    /\ ~wantsReload[POverlay]

(* ---------------------------------------------------------------------- *)
(* Repeated edits (checked under SpecEdits)                                *)
(* ---------------------------------------------------------------------- *)
\* C27: a model stays hot-reloadable after it has been reloaded - every
\* detected change of the file of a model, also after earlier reloads,
\* sets wantsReload on the Model the asset table holds for it.
C27_StaysReloadable ==
    [][\A n \in ModelNames :
          Detected(ModelFile(n)) => modelWantsReload'[models'[n]]]_vars

\* the Models whose wantsReload the callback writes for a change of f: the
\* owners of f it finds among the values of the asset table
CallbackWrites(f) == {o \in Range(files[f].owners) : InTable(o)}

\* C28: in every interleaving of the watcher thread and the render thread,
\* onFileChanged never writes wantsReload to a Model that the render thread
\* has already deleted.
C28_NoWriteToDeletedModel ==
    [][\A f \in ModelPaths : Detected(f) => CallbackWrites(f) \cap deletedModels = {}]_vars

C30_FramePacing ==
    /\ [](frameIndex \in 0..(renderAhead - 1))
    /\ [][frameIndex' # frameIndex => frames' = frames + 1]_vars
    /\ [][frames' = frames + 1 =>
              \/ /\ inflight' = inflight \cup {frameIndex}
                 /\ frameIndex' = (frameIndex + 1) % renderAhead
              \/ /\ inflight' = {}
                 /\ frameIndex' = frameIndex]_vars
    /\ [](mpc = "record" => frameIndex \notin inflight)
    /\ [][cmdRefs' # cmdRefs =>
              /\ frameIndex \notin inflight
              /\ \A slot \in DOMAIN cmdRefs : slot # frameIndex => cmdRefs'[slot] = cmdRefs[slot]]_vars

\* C30 witness: the third frame is being recorded into the slot of the
\* first one, whose submission has finished, while the second frame is
\* still executing.
C30_Witness ==
    /\ mpc = "record"
    /\ frames = 2
    /\ frameIndex = 0
    /\ cmdRefs[0] # {}
    /\ inflight = {1}

====
